---- MODULE Spec2Model ----
(***************************************************************************)
(* Model of main.py: one pipeline cycle fetches EUR, USD and CHF rates     *)
(* from the NBP API, derives EUR/USD and CHF/USD, assembles a DataFrame    *)
(* and merges it into all_currency_data.csv with save_to_csv.              *)
(*                                                                         *)
(* Dates are day numbers 1..MaxDate (pd.to_datetime is order preserving on *)
(* 'YYYY-MM-DD' strings).  A mid rate is a positive integer; a derived     *)
(* ratio round(a / b, 4) is held in units of 1/Scale.                      *)
(* A dict is the sequence of its items in insertion order.  A DataFrame is *)
(* a sequence of rows carrying their index label; the CSV file holds the   *)
(* rows without the index (to_csv(index=False)) and read_csv relabels them.*)
(***************************************************************************)
EXTENDS Integers, Sequences, FiniteSets, TLC

VARIABLES
    file,        \* all_currency_data.csv: [exists, rows]
    pc,          \* position of the sequential pipeline
    raw,         \* what the API answered for each currency in this cycle
    eur_rates, usd_rates, chf_rates,   \* dicts returned by fetch_currency_data
    eur_usd_rates, chf_usd_rates,      \* derived dicts
    df,          \* DataFrame returned by process_currency_data
    err,         \* exception that ended the cycle, or the one save_to_csv caught
    before,      \* the file as it was when the last save_to_csv call started
    merges,      \* number of completed save_to_csv calls
    mpc, mdf, mexists, mexisting       \* two concurrent invocations (SpecConc)

vars == <<file, pc, raw, eur_rates, usd_rates, chf_rates, eur_usd_rates,
          chf_usd_rates, df, err, before, merges, mpc, mdf, mexists, mexisting>>

seqVars == <<pc, raw, eur_rates, usd_rates, chf_rates, eur_usd_rates,
             chf_usd_rates, df, err, before, merges>>
concVars == <<mpc, mdf, mexists, mexisting>>

----------------------------------------------------------------------------
\* Bounds of the model
MaxDate == 2
MaxMerges == 2

Dates == 1..MaxDate
EurMids == {4}
UsdMids == {2, 3}
ChfMids == {5}
Mids(c) == IF c = "EUR" THEN EurMids ELSE IF c = "USD" THEN UsdMids ELSE ChfMids
Currencies == {"EUR", "USD", "CHF"}
Statuses == {200, 400, 404, 500}
Procs == {"auto", "manual"}

\* round(x, 4): four decimal digits
Scale == 10000
\* pd.to_datetime(...).max() of an empty column
NaT == 0

----------------------------------------------------------------------------
\* Sequences and dicts

Min(S) == CHOOSE x \in S : \A y \in S : x <= y
Max(S) == CHOOSE x \in S : \A y \in S : x >= y

RECURSIVE SortedSeq(_)
SortedSeq(S) == IF S = {} THEN <<>> ELSE <<Min(S)>> \o SortedSeq(S \ {Min(S)})

\* The "rates" arrays the API can answer for a currency: one entry per
\* published day, in chronological order (possibly none).
RatesLists(c) ==
    { [i \in 1..Len(SortedSeq(DOMAIN f)) |->
          [effectiveDate |-> SortedSeq(DOMAIN f)[i], mid |-> f[SortedSeq(DOMAIN f)[i]]]]
      : f \in UNION { [S -> Mids(c)] : S \in SUBSET Dates } }

Responses(c) == { [status |-> s, rates |-> r] : s \in Statuses, r \in RatesLists(c) }

\* {entry['effectiveDate']: entry['mid'] for entry in rates}: a later entry
\* for a key replaces the value and keeps the key's position.
RECURSIVE DictOf(_)
DictOf(rates) ==
    IF rates = <<>> THEN <<>>
    ELSE LET d == DictOf(SubSeq(rates, 1, Len(rates) - 1))
             e == rates[Len(rates)]
         IN IF \E i \in 1..Len(d) : d[i].key = e.effectiveDate
            THEN [i \in 1..Len(d) |->
                     IF d[i].key = e.effectiveDate
                     THEN [key |-> d[i].key, val |-> e.mid] ELSE d[i]]
            ELSE Append(d, [key |-> e.effectiveDate, val |-> e.mid])

Keys(d) == [i \in 1..Len(d) |-> d[i].key]
Values(d) == [i \in 1..Len(d) |-> d[i].val]
KeySet(d) == { d[i].key : i \in 1..Len(d) }
Get(d, k) == d[CHOOSE i \in 1..Len(d) : d[i].key = k].val

----------------------------------------------------------------------------
\* fetch_currency_data

\* response.raise_for_status() raises HTTPError for 4xx and 5xx
RaisesForStatus(status) == 400 <= status /\ status < 600

\* Faulty variant: an empty rates list is returned as an empty dict.
FetchCurrencyData_emptyOk(response) ==
    IF RaisesForStatus(response.status)
    THEN [ok |-> FALSE, err |-> "HTTPError", rates |-> <<>>]
    ELSE [ok |-> TRUE, err |-> "none", rates |-> DictOf(response.rates)]

FetchCurrencyData(response) ==
    IF RaisesForStatus(response.status)
    THEN [ok |-> FALSE, err |-> "HTTPError", rates |-> <<>>]
    ELSE IF response.rates = <<>>
    THEN [ok |-> FALSE, err |-> "Exception", rates |-> <<>>]
    ELSE [ok |-> TRUE, err |-> "none", rates |-> DictOf(response.rates)]

\* What the API answered, seen from outside the program
Answer(response) ==
    IF response.status # 200 THEN "http_error"
    ELSE IF response.rates = <<>> THEN "empty" ELSE "rates"

----------------------------------------------------------------------------
\* process_currency_data

\* round(a / b, 4) in units of 1/Scale, ties to even
Round4(a, b) ==
    LET n == a * Scale
        q == n \div b
        r == n % b
    IN IF 2 * r < b THEN q
       ELSE IF 2 * r > b THEN q + 1
       ELSE IF q % 2 = 0 THEN q ELSE q + 1

\* {date: round(num[date] / den[date], 4) for date in num.keys()}
DeriveRatio(num, den) ==
    IF \A i \in 1..Len(num) : num[i].key \in KeySet(den)
    THEN [ok |-> TRUE, err |-> "none",
          rates |-> [i \in 1..Len(num) |->
                        [key |-> num[i].key,
                         val |-> Round4(num[i].val, Get(den, num[i].key))]]]
    ELSE [ok |-> FALSE, err |-> "KeyError", rates |-> <<>>]

MinLen(cols) == Min({ Len(cols[i]) : i \in 1..Len(cols) })

FrameRows(cols, n) ==
    [i \in 1..n |->
        [idx |-> i - 1, Date |-> cols[1][i],
         EUR_PLN |-> cols[2][i], USD_PLN |-> cols[3][i], CHF_PLN |-> cols[4][i],
         EUR_USD |-> cols[5][i], CHF_USD |-> cols[6][i]]]

\* Faulty variant: columns of unequal length are cut to the shortest (zip-like).
DataFrame_truncate(cols) ==
    [ok |-> TRUE, err |-> "none", df |-> FrameRows(cols, MinLen(cols))]

\* pd.DataFrame({...}) of six lists: the lists are laid side by side by
\* position; lists of unequal length raise ValueError.
DataFrame(cols) ==
    IF \A i \in 1..Len(cols) : Len(cols[i]) = Len(cols[1])
    THEN [ok |-> TRUE, err |-> "none", df |-> FrameRows(cols, Len(cols[1]))]
    ELSE [ok |-> FALSE, err |-> "ValueError", df |-> <<>>]

Columns(eur, usd, chf, eurusd, chfusd) ==
    <<Keys(eur), Values(eur), Values(usd), Values(chf), Values(eurusd), Values(chfusd)>>

\* The whole of process_currency_data after the three fetches succeeded
ProcessCurrencyData(eur, usd, chf) ==
    LET eu == DeriveRatio(eur, usd)
        cu == DeriveRatio(chf, usd)
    IN IF ~eu.ok THEN [ok |-> FALSE, err |-> eu.err, df |-> <<>>]
       ELSE IF ~cu.ok THEN [ok |-> FALSE, err |-> cu.err, df |-> <<>>]
       ELSE DataFrame(Columns(eur, usd, chf, eu.rates, cu.rates))

----------------------------------------------------------------------------
\* save_to_csv(data_frame, ALL_CURRENCY_FILE)

Absent == [exists |-> FALSE, rows |-> <<>>]

\* to_csv(index=False): the index labels are not written
ToCsv(frame) ==
    [i \in 1..Len(frame) |->
        [Date |-> frame[i].Date,
         EUR_PLN |-> frame[i].EUR_PLN, USD_PLN |-> frame[i].USD_PLN,
         CHF_PLN |-> frame[i].CHF_PLN,
         EUR_USD |-> frame[i].EUR_USD, CHF_USD |-> frame[i].CHF_USD]]

\* read_csv: rows are labelled 0..n-1 again
ReadCsv(rows) ==
    [i \in 1..Len(rows) |->
        [idx |-> i - 1, Date |-> rows[i].Date,
         EUR_PLN |-> rows[i].EUR_PLN, USD_PLN |-> rows[i].USD_PLN,
         CHF_PLN |-> rows[i].CHF_PLN,
         EUR_USD |-> rows[i].EUR_USD, CHF_USD |-> rows[i].CHF_USD]]

DateSet(rows) == { rows[i].Date : i \in 1..Len(rows) }

\* pd.to_datetime(existing_data['Date']).max()
LatestDate(existing) == IF existing = <<>> THEN NaT ELSE Max(DateSet(existing))

IsNewer(row, latest) == latest # NaT /\ row.Date > latest

\* Faulty variant: every incoming row is taken, whatever its date.
NewEntries_all(data_frame, latest) == data_frame

\* data_frame[pd.to_datetime(data_frame['Date']) > latest_date_existing]
NewEntries(data_frame, latest) ==
    SelectSeq(data_frame, LAMBDA row : IsNewer(row, latest))

\* drop_duplicates(subset=['Date']): the first row of each Date is kept
RECURSIVE DropDuplicates(_)
DropDuplicates(frame) ==
    IF frame = <<>> THEN <<>>
    ELSE LET head == DropDuplicates(SubSeq(frame, 1, Len(frame) - 1))
             last == frame[Len(frame)]
         IN IF last.Date \in DateSet(head) THEN head ELSE Append(head, last)

\* Faulty variant: the incoming table replaces the history (as for the selected file).
UpdatedData_overwrite(existing, data_frame) == data_frame

\* Faulty variant: the incoming table is appended whole, without filter or dedup.
UpdatedData_append(existing, data_frame) == existing \o data_frame

\* lines 64-68
UpdatedData(existing, data_frame) ==
    DropDuplicates(existing \o NewEntries(data_frame, LatestDate(existing)))

\* The file after a save_to_csv call in which reading and writing succeed
SaveToCsv(f, data_frame) ==
    IF f.exists
    THEN [exists |-> TRUE, rows |-> ToCsv(UpdatedData(ReadCsv(f.rows), data_frame))]
    ELSE [exists |-> TRUE, rows |-> ToCsv(data_frame)]

----------------------------------------------------------------------------
\* The sequential pipeline: main_auto / main_manual up to the merge

NoRaw == [c \in Currencies |-> "pending"]

Init ==
    /\ file = Absent
    /\ pc = "start"
    /\ raw = NoRaw
    /\ eur_rates = <<>> /\ usd_rates = <<>> /\ chf_rates = <<>>
    /\ eur_usd_rates = <<>> /\ chf_usd_rates = <<>>
    /\ df = <<>>
    /\ err = "none"
    /\ before = Absent
    /\ merges = 0
    /\ mpc = [p \in Procs |-> "idle"]
    /\ mdf = [p \in Procs |-> <<>>]
    /\ mexists = [p \in Procs |-> FALSE]
    /\ mexisting = [p \in Procs |-> <<>>]

\* A cycle starts (the daily job fires, or the script is run again); line 119
FetchEUR ==
    /\ pc \in {"start", "saved", "failed"}
    /\ merges < MaxMerges
    /\ \E response \in Responses("EUR") :
         LET res == FetchCurrencyData(response) IN
         /\ raw' = [NoRaw EXCEPT !["EUR"] = Answer(response)]
         /\ eur_rates' = res.rates
         /\ err' = res.err
         /\ pc' = IF res.ok THEN "eur" ELSE "failed"
    /\ usd_rates' = <<>> /\ chf_rates' = <<>>
    /\ eur_usd_rates' = <<>> /\ chf_usd_rates' = <<>>
    /\ df' = <<>>
    /\ before' = Absent
    /\ UNCHANGED <<file, merges>>
    /\ UNCHANGED concVars

\* line 120
FetchUSD ==
    /\ pc = "eur"
    /\ \E response \in Responses("USD") :
         LET res == FetchCurrencyData(response) IN
         /\ raw' = [raw EXCEPT !["USD"] = Answer(response)]
         /\ usd_rates' = res.rates
         /\ err' = res.err
         /\ pc' = IF res.ok THEN "usd" ELSE "failed"
    /\ UNCHANGED <<file, eur_rates, chf_rates, eur_usd_rates, chf_usd_rates,
                   df, before, merges>>
    /\ UNCHANGED concVars

\* line 121
FetchCHF ==
    /\ pc = "usd"
    /\ \E response \in Responses("CHF") :
         LET res == FetchCurrencyData(response) IN
         /\ raw' = [raw EXCEPT !["CHF"] = Answer(response)]
         /\ chf_rates' = res.rates
         /\ err' = res.err
         /\ pc' = IF res.ok THEN "chf" ELSE "failed"
    /\ UNCHANGED <<file, eur_rates, usd_rates, eur_usd_rates, chf_usd_rates,
                   df, before, merges>>
    /\ UNCHANGED concVars

\* lines 123-124
Derive ==
    /\ pc = "chf"
    /\ LET eu == DeriveRatio(eur_rates, usd_rates)
           cu == DeriveRatio(chf_rates, usd_rates)
       IN IF ~eu.ok
          THEN /\ err' = eu.err /\ pc' = "failed"
               /\ UNCHANGED <<eur_usd_rates, chf_usd_rates>>
          ELSE IF ~cu.ok
          THEN /\ err' = cu.err /\ pc' = "failed"
               /\ eur_usd_rates' = eu.rates
               /\ UNCHANGED chf_usd_rates
          ELSE /\ err' = "none" /\ pc' = "derived"
               /\ eur_usd_rates' = eu.rates
               /\ chf_usd_rates' = cu.rates
    /\ UNCHANGED <<file, raw, eur_rates, usd_rates, chf_rates, df, before, merges>>
    /\ UNCHANGED concVars

\* lines 126-137
Assemble ==
    /\ pc = "derived"
    /\ LET res == DataFrame(Columns(eur_rates, usd_rates, chf_rates,
                                    eur_usd_rates, chf_usd_rates))
       IN /\ df' = res.df
          /\ err' = res.err
          /\ pc' = IF res.ok THEN "assembled" ELSE "failed"
    /\ UNCHANGED <<file, raw, eur_rates, usd_rates, chf_rates,
                   eur_usd_rates, chf_usd_rates, before, merges>>
    /\ UNCHANGED concVars

\* lines 142 / 147: save_to_csv(df, ALL_CURRENCY_FILE), storage working
Save ==
    /\ pc = "assembled"
    /\ file' = SaveToCsv(file, df)
    /\ before' = file
    /\ merges' = merges + 1
    /\ err' = "none"
    /\ pc' = "saved"
    /\ UNCHANGED <<raw, eur_rates, usd_rates, chf_rates, eur_usd_rates,
                   chf_usd_rates, df>>
    /\ UNCHANGED concVars

Next == FetchEUR \/ FetchUSD \/ FetchCHF \/ Derive \/ Assemble \/ Save

Spec == Init /\ [][Next]_vars

----------------------------------------------------------------------------
\* save_to_csv with failing storage.  Every exception is caught at line 75:
\* the call returns normally and the cycle goes on.

\* pd.read_csv raises (line 63): nothing has been written yet
SaveReadFails ==
    /\ pc = "assembled"
    /\ file.exists
    /\ file' = file
    /\ before' = file
    /\ merges' = merges + 1
    /\ err' = "ReadError"
    /\ pc' = "saved"
    /\ UNCHANGED <<raw, eur_rates, usd_rates, chf_rates, eur_usd_rates,
                   chf_usd_rates, df>>
    /\ UNCHANGED concVars

\* to_csv raises (lines 70, 73).  to_csv opens the file for writing, which
\* empties it, and then writes the rows: a failure at the open leaves the
\* file as it was, a failure after it leaves the header and any number of
\* the rows (cut here at a row boundary).  A file left without rows stays
\* without rows in later merges: read_csv raises on an empty file, and a
\* header alone yields an empty frame, whose latest Date is NaT.
SaveWriteFails ==
    /\ pc = "assembled"
    /\ LET new == SaveToCsv(file, df) IN
       \/ file' = file
       \/ \E k \in 0..(Len(new.rows) - 1) :
            file' = [exists |-> TRUE, rows |-> SubSeq(new.rows, 1, k)]
    /\ before' = file
    /\ merges' = merges + 1
    /\ err' = "WriteError"
    /\ pc' = "saved"
    /\ UNCHANGED <<raw, eur_rates, usd_rates, chf_rates, eur_usd_rates,
                   chf_usd_rates, df>>
    /\ UNCHANGED concVars

NextFail ==
    \/ FetchEUR \/ FetchUSD \/ FetchCHF \/ Derive \/ Assemble \/ Save
    \/ SaveReadFails \/ SaveWriteFails

SpecFail == Init /\ [][NextFail]_vars

----------------------------------------------------------------------------
\* Two invocations on the same file: the scheduled job of `--auto` and a
\* `--manual` run are separate processes and take no lock.  Each process p
\* runs process_currency_data (local to p) and then the steps of
\* save_to_csv that touch the file: isfile, read_csv, to_csv.

\* lines 141 / 146: a cycle whose fetches and assembly succeed
CProcess(p) ==
    /\ mpc[p] = "idle"
    /\ \E er \in RatesLists("EUR"), ur \in RatesLists("USD"), cr \in RatesLists("CHF") :
         LET e == FetchCurrencyData([status |-> 200, rates |-> er])
             u == FetchCurrencyData([status |-> 200, rates |-> ur])
             c == FetchCurrencyData([status |-> 200, rates |-> cr])
         IN /\ e.ok /\ u.ok /\ c.ok
            /\ LET res == ProcessCurrencyData(e.rates, u.rates, c.rates) IN
               /\ res.ok
               /\ mdf' = [mdf EXCEPT ![p] = res.df]
    /\ mpc' = [mpc EXCEPT ![p] = "ready"]
    /\ UNCHANGED <<file, mexists, mexisting>>
    /\ UNCHANGED seqVars

\* line 62: os.path.isfile(filename)
CIsFile(p) ==
    /\ mpc[p] = "ready"
    /\ mexists' = [mexists EXCEPT ![p] = file.exists]
    /\ mpc' = [mpc EXCEPT ![p] = "checked"]
    /\ UNCHANGED <<file, mdf, mexisting>>
    /\ UNCHANGED seqVars

\* line 63: pd.read_csv(filename)
CRead(p) ==
    /\ mpc[p] = "checked" /\ mexists[p]
    /\ mexisting' = [mexisting EXCEPT ![p] = ReadCsv(file.rows)]
    /\ mpc' = [mpc EXCEPT ![p] = "read"]
    /\ UNCHANGED <<file, mdf, mexists>>
    /\ UNCHANGED seqVars

\* lines 64-70, or line 73 when isfile answered False
CWrite(p) ==
    /\ \/ /\ mpc[p] = "read"
          /\ file' = [exists |-> TRUE, rows |-> ToCsv(UpdatedData(mexisting[p], mdf[p]))]
       \/ /\ mpc[p] = "checked" /\ ~mexists[p]
          /\ file' = [exists |-> TRUE, rows |-> ToCsv(mdf[p])]
    /\ mpc' = [mpc EXCEPT ![p] = "idle"]
    /\ mdf' = [mdf EXCEPT ![p] = <<>>]
    /\ mexists' = [mexists EXCEPT ![p] = FALSE]
    /\ mexisting' = [mexisting EXCEPT ![p] = <<>>]
    /\ UNCHANGED seqVars

NextConc == \E p \in Procs : CProcess(p) \/ CIsFile(p) \/ CRead(p) \/ CWrite(p)

SpecConc == Init /\ [][NextConc]_vars

----------------------------------------------------------------------------
\* Properties of the sequential pipeline (Spec)

CsvRow(row) == ToCsv(<<row>>)[1]
Appended == SubSeq(file.rows, Len(before.rows) + 1, Len(file.rows))
Merged == pc = "saved" /\ before.exists
StoredRow(rows, d) == rows[CHOOSE i \in 1..Len(rows) : rows[i].Date = d]
Ascending(rows) == \A i, j \in 1..Len(rows) : i < j => rows[i].Date < rows[j].Date

\* C1: when the history file exists, save_to_csv keeps the stored rows as
\* they are and appends exactly the incoming rows whose Date is greater than
\* M, the largest stored Date; every incoming row with Date <= M is dropped,
\* whatever its values.
C1_AppendsOnlyNewer ==
    Merged =>
      LET M == Max(DateSet(before.rows)) IN
      /\ SubSeq(file.rows, 1, Len(before.rows)) = before.rows
      /\ Len(Appended) = Cardinality({ i \in 1..Len(df) : df[i].Date > M })
      /\ \A i \in 1..Len(df) :
           IF df[i].Date > M
           THEN \E j \in 1..Len(Appended) : Appended[j] = CsvRow(df[i])
           ELSE /\ \A j \in 1..Len(Appended) : Appended[j].Date # df[i].Date
                /\ df[i].Date \in DateSet(before.rows) =>
                      StoredRow(file.rows, df[i].Date) = StoredRow(before.rows, df[i].Date)

\* A merge into an existing history that dropped an old row whose values
\* differ from the stored ones and appended a newer row.
C1_Witness ==
    /\ Merged
    /\ \E i \in 1..Len(df) :
         /\ df[i].Date \in DateSet(before.rows)
         /\ CsvRow(df[i]) # StoredRow(before.rows, df[i].Date)
    /\ \E i \in 1..Len(df) : df[i].Date > Max(DateSet(before.rows))

\* C2: merging the same incoming table a second time leaves the history as
\* the first merge left it (for an absent and for an existing history).
C2_Idempotent == pc = "saved" => SaveToCsv(file, df) = file

\* A merge into an existing history that appended rows has completed.
C2_Witness == Merged /\ Len(file.rows) > Len(before.rows)

\* C3: no step reduces the stored row count, removes a stored Date or
\* changes a stored row.
C3_HistoryOnlyGrows ==
    [][file.exists =>
         /\ file'.exists
         /\ Len(file'.rows) >= Len(file.rows)
         /\ \A i \in 1..Len(file.rows) :
              /\ file.rows[i].Date \in DateSet(file'.rows)
              /\ StoredRow(file'.rows, file.rows[i].Date) = file.rows[i]]_vars

\* A second merge whose table carries other values for a stored Date.
C3_Witness ==
    /\ Merged /\ merges = 2
    /\ \A i \in 1..Len(df) :
         /\ df[i].Date \in DateSet(before.rows)
         /\ CsvRow(df[i]) # StoredRow(before.rows, df[i].Date)

\* C4: after every merge the history is sorted strictly ascending by Date,
\* hence holds one row per Date.
C4_SortedUnique == file.exists => Ascending(file.rows)

\* The history was written first with a later Date only and then merged
\* with a table that holds an earlier Date too.
C4_Witness ==
    /\ Merged
    /\ \E i \in 1..Len(df) : df[i].Date < Min(DateSet(before.rows))

\* C5: the derived mapping has an entry for a date exactly when the date is
\* in numerator and denominator, and the derivation does not fail on a date
\* that only one of them has.
C5_StrictIntersection ==
    (pc \in {"derived", "failed"} /\ \A c \in Currencies : raw[c] = "rates") =>
       /\ err # "KeyError"
       /\ KeySet(eur_usd_rates) = KeySet(eur_rates) \cap KeySet(usd_rates)
       /\ KeySet(chf_usd_rates) = KeySet(chf_rates) \cap KeySet(usd_rates)

\* C6: a fetch that fails (HTTP error, or success with no rates) ends the
\* cycle with the file unchanged, and the file changes only in a cycle whose
\* three fetches all returned rates.
C6_FetchFailureAborts ==
    [][/\ (\E c \in Currencies : raw'[c] \in {"http_error", "empty"}) =>
             (pc' = "failed" /\ err' # "none" /\ file' = file)
       /\ file' # file => \A c \in Currencies : raw[c] = "rates"]_vars

\* The third fetch answered with success and no rates, with a history stored.
C6_Witness ==
    /\ pc = "failed" /\ file.exists
    /\ raw["EUR"] = "rates" /\ raw["USD"] = "rates" /\ raw["CHF"] = "empty"

\* C9: for date-sorted tables A and B with every Date of A before every
\* Date of B, merging A into an absent history and then B gives the history
\* that one merge of A's rows followed by B's rows gives.
C9_SplitEqualsUnion ==
    (/\ Merged /\ merges = 2
     /\ Ascending(before.rows) /\ Ascending(df)
     /\ \A d \in DateSet(before.rows), e \in DateSet(df) : d < e)
    => file = SaveToCsv(Absent, ReadCsv(before.rows \o ToCsv(df)))

\* A was merged into the absent history and then B, all of B later than A.
C9_Witness ==
    /\ Merged /\ merges = 2
    /\ \A d \in DateSet(before.rows), e \in DateSet(df) : d < e

\* C10: in a table process_currency_data returns, every row holds the rates
\* fetched for the row's Date and the ratios of those rates.
C10_RowsAligned ==
    pc \in {"assembled", "saved"} =>
      \A i \in 1..Len(df) :
        LET d == df[i].Date IN
        /\ d \in KeySet(eur_rates) /\ d \in KeySet(usd_rates) /\ d \in KeySet(chf_rates)
        /\ df[i].EUR_PLN = Get(eur_rates, d)
        /\ df[i].USD_PLN = Get(usd_rates, d)
        /\ df[i].CHF_PLN = Get(chf_rates, d)
        /\ df[i].EUR_USD = Round4(Get(eur_rates, d), Get(usd_rates, d))
        /\ df[i].CHF_USD = Round4(Get(chf_rates, d), Get(usd_rates, d))

\* A table of two rows whose USD rates differ was returned.
C10_Witness ==
    /\ pc = "assembled" /\ Len(df) = 2
    /\ df[1].USD_PLN # df[2].USD_PLN

----------------------------------------------------------------------------
\* Properties of save_to_csv with failing storage (SpecFail)

\* C7: a save_to_csv call that failed while reading or writing leaves the
\* file exactly as it was when the call started.
C7_FailedMergeLeavesFile ==
    (pc = "saved" /\ err \in {"ReadError", "WriteError"}) => file = before

----------------------------------------------------------------------------
\* Properties of two concurrent invocations (SpecConc)

\* C8: merges against the file are serialized, so that no interleaving of
\* two invocations removes a Date that a completed merge had stored.
C8_NoLostRows ==
    [][\A d \in DateSet(file.rows) : d \in DateSet(file'.rows)]_vars
====
